---- MODULE Spec2Model ----
(***************************************************************************)
(* Model of src/beam.py: the composable cross-section algebra.             *)
(*                                                                         *)
(* Numbers are exact rationals <<n, d>> (d > 0, lowest terms); Python's    *)
(* float rounding is not modelled.  A property either returns a value or   *)
(* raises; an outcome is the record [err, v] with err = "none" on return.  *)
(* Objects live in a heap (a sequence of nodes that refer to their         *)
(* children by index); a query unfolds the node into the tree it denotes   *)
(* and evaluates the tree as the properties of the classes do.             *)
(***************************************************************************)
EXTENDS Integers, Sequences, FiniteSets

VARIABLE heap

vars == <<heap>>

(* ------------------------------ numbers ------------------------------- *)

Abs(n) == IF n < 0 THEN -n ELSE n

RECURSIVE GCD(_, _)
GCD(a, b) == IF b = 0 THEN a ELSE GCD(b, a % b)

Norm(n, d) == LET g == GCD(Abs(n), d) IN <<n \div g, d \div g>>

R(n) == <<n, 1>>

Frac(n, d) == Norm(n, d)

RAdd(a, b) == Norm(a[1] * b[2] + b[1] * a[2], a[2] * b[2])

RNeg(a) == <<-a[1], a[2]>>

RSub(a, b) == RAdd(a, RNeg(b))

RMul(a, b) == Norm(a[1] * b[1], a[2] * b[2])

RDivNZ(a, b) ==
    IF b[1] > 0 THEN Norm(a[1] * b[2], a[2] * b[1])
    ELSE Norm(-(a[1] * b[2]), a[2] * (-b[1]))

RLe(a, b) == a[1] * b[2] <= b[1] * a[2]

RMin(a, b) == IF RLe(a, b) THEN a ELSE b

RMax(a, b) == IF RLe(b, a) THEN a ELSE b

RCube(a) == RMul(RMul(a, a), a)

Zero == R(0)

(* ------------------------------ outcomes ------------------------------ *)

Ok(v) == [err |-> "none", v |-> v]

Raise(e) == [err |-> e, v |-> <<>>]

IsOk(o) == o.err = "none"

\* a / b: ZeroDivisionError when b = 0
Div(a, b) == IF b = Zero THEN Raise("ZeroDivisionError") ELSE Ok(RDivNZ(a, b))

\* Python values passed as a scale or a weight carry their type; v holds the
\* numbers of the value (one for a scalar, two for a pair)
PyFloat(r) == [v |-> <<r>>, type |-> "float"]
PyInt(n) == [v |-> <<R(n)>>, type |-> "int"]
PyTuple(x, y) == [v |-> <<x, y>>, type |-> "tuple"]
PyStr == [v |-> <<>>, type |-> "str"]

\* obj[i]: TypeError when obj is not subscriptable
Subscript(obj, i) ==
    IF obj.type = "tuple" THEN Ok(obj.v[i]) ELSE Raise("TypeError")

(* ------------------------- nodes and combinators ---------------------- *)
(* A child is a tree in an expression and a heap index in a heap node.     *)

UnitSquare == [kind |-> "UnitSquare"]

ShiftedCrosssection(crossection, offset) ==
    [kind |-> "Shifted", crossection |-> crossection, offset |-> offset]

ScaledCrossection(crossection, scale) ==
    [kind |-> "Scaled", crossection |-> crossection, scale |-> scale]

WeightedCrossection(crossection, weight) ==
    [kind |-> "Weighted", crossection |-> crossection, weight |-> weight]

SumCrossection(first, second) ==
    [kind |-> "Sum", first |-> first, second |-> second]

Rectangle(x_side, y_side) ==
    [kind |-> "Rectangle", x_side |-> x_side, y_side |-> y_side]

AngleSection(side, wall) ==
    [kind |-> "AngleSection", side |-> side, wall |-> wall]

IBeam(width, height, flange, web) ==
    [kind |-> "IBeam", width |-> width, height |-> height,
     flange |-> flange, web |-> web]

\* shift(self, offset)
shift(self, offset) == ShiftedCrosssection(self, PyTuple(offset[1], offset[2]))

\* scale(self, scale): only a float is turned into a pair
scale(self, s) ==
    IF s.type = "float"
    THEN ScaledCrossection(self, PyTuple(s.v[1], s.v[1]))
    ELSE ScaledCrossection(self, s)

\* __mul__ / __rmul__: the assertion admits float and int only
mul(self, weight) ==
    IF weight.type \in {"float", "int"}
    THEN Ok(WeightedCrossection(self, weight.v[1]))
    ELSE Raise("AssertionError")

\* __neg__: (-1) * self
neg(self) == mul(self, PyInt(-1)).v

\* __add__
add(self, other) == SumCrossection(self, other)

\* __sub__: self + (-other)
sub(self, other) == add(self, neg(other))

(* ------------------------------ properties ---------------------------- *)
(* One operator per property of each class.  It takes the node t and the   *)
(* outcomes c of the four properties of its child (c1, c2 for a sum), in   *)
(* the order the property reads them.  props(t) dispatches on the class of *)
(* the node, as attribute lookup does.                                     *)

RECURSIVE props(_)

area(t) == props(t).area

bb(t) == props(t).bb

mom(t) == props(t).mom

com(t) == props(t).com

\* center that shifts by the centroid instead of its negative
centerBug(self) ==
    LET c == com(self) IN
    IF ~IsOk(c) THEN c
    ELSE Ok(shift(self, <<c.v[1], c.v[2]>>))

\* center(self): x, y = self.com; self.shift((-x, -y))
center(self) ==
    LET c == com(self) IN
    IF ~IsOk(c) THEN c
    ELSE Ok(shift(self, <<RNeg(c.v[1]), RNeg(c.v[2])>>))

(* _ShiftedCrosssection *)

ShiftedArea(t, c) == c.area

ShiftedBb(t, c) ==
    LET b == c.bb
        xshift == t.offset.v[1]
        yshift == t.offset.v[2]
    IN IF ~IsOk(b) THEN b
       ELSE Ok(<<<<RAdd(b.v[1][1], xshift), RAdd(b.v[1][2], yshift)>>,
                 <<RAdd(b.v[2][1], xshift), RAdd(b.v[2][2], yshift)>>>>)

\* the parallel-axis term taken from the x offset
ShiftedMomBug(t, c) ==
    IF ~IsOk(c.mom) THEN c.mom
    ELSE IF ~IsOk(c.area) THEN c.area
    ELSE Ok(RAdd(c.mom.v, RMul(RMul(c.area.v, t.offset.v[1]), t.offset.v[1])))

ShiftedMom(t, c) ==
    IF ~IsOk(c.mom) THEN c.mom
    ELSE IF ~IsOk(c.area) THEN c.area
    ELSE Ok(RAdd(c.mom.v, RMul(RMul(c.area.v, t.offset.v[2]), t.offset.v[2])))

ShiftedCom(t, c) ==
    IF ~IsOk(c.com) THEN c.com
    ELSE Ok(<<RAdd(t.offset.v[1], c.com.v[1]), RAdd(t.offset.v[2], c.com.v[2])>>)

(* _ScaledCrossection *)

ScaledArea(t, c) ==
    LET sx == Subscript(t.scale, 1)
        sy == Subscript(t.scale, 2)
    IN IF ~IsOk(c.area) THEN c.area
       ELSE IF ~IsOk(sx) THEN sx
       ELSE IF ~IsOk(sy) THEN sy
       ELSE Ok(RMul(RMul(c.area.v, sx.v), sy.v))

ScaledBb(t, c) ==
    LET b == c.bb
        sx == Subscript(t.scale, 1)
        sy == Subscript(t.scale, 2)
    IN IF ~IsOk(b) THEN b
       ELSE IF ~IsOk(sx) THEN sx
       ELSE IF ~IsOk(sy) THEN sy
       ELSE Ok(<<<<RMul(b.v[1][1], sx.v), RMul(b.v[1][2], sy.v)>>,
                 <<RMul(b.v[2][1], sx.v), RMul(b.v[2][2], sy.v)>>>>)

ScaledMom(t, c) ==
    LET sx == Subscript(t.scale, 1)
        sy == Subscript(t.scale, 2)
    IN IF ~IsOk(c.mom) THEN c.mom
       ELSE IF ~IsOk(sx) THEN sx
       ELSE IF ~IsOk(sy) THEN sy
       ELSE Ok(RMul(RMul(c.mom.v, sx.v), RCube(sy.v)))

ScaledCom(t, c) == c.com

(* _WeightedCrossection *)

WeightedArea(t, c) ==
    IF ~IsOk(c.area) THEN c.area ELSE Ok(RMul(c.area.v, t.weight))

WeightedBb(t, c) == c.bb

WeightedMom(t, c) ==
    IF ~IsOk(c.mom) THEN c.mom ELSE Ok(RMul(c.mom.v, t.weight))

WeightedCom(t, c) == c.com

(* _SumCrossection *)

SumArea(t, c1, c2) ==
    IF ~IsOk(c1.area) THEN c1.area
    ELSE IF ~IsOk(c2.area) THEN c2.area
    ELSE Ok(RAdd(c1.area.v, c2.area.v))

\* the upper corner taken from the first child alone
SumBbBug(t, c1, c2) ==
    LET b1 == c1.bb
        b2 == c2.bb
    IN IF ~IsOk(b1) THEN b1
       ELSE IF ~IsOk(b2) THEN b2
       ELSE Ok(<<<<RMin(b1.v[1][1], b2.v[1][1]), RMin(b1.v[1][2], b2.v[1][2])>>,
                 <<RMax(b1.v[2][1], b1.v[2][1]), RMax(b1.v[2][2], b1.v[2][2])>>>>)

SumBb(t, c1, c2) ==
    LET b1 == c1.bb
        b2 == c2.bb
    IN IF ~IsOk(b1) THEN b1
       ELSE IF ~IsOk(b2) THEN b2
       ELSE Ok(<<<<RMin(b1.v[1][1], b2.v[1][1]), RMin(b1.v[1][2], b2.v[1][2])>>,
                 <<RMax(b1.v[2][1], b2.v[2][1]), RMax(b1.v[2][2], b2.v[2][2])>>>>)

SumMom(t, c1, c2) ==
    IF ~IsOk(c1.mom) THEN c1.mom
    ELSE IF ~IsOk(c2.mom) THEN c2.mom
    ELSE Ok(RAdd(c1.mom.v, c2.mom.v))

SumCom(t, c1, c2) ==
    LET m1 == c1.area
        m2 == c2.area
        x == Div(RAdd(RMul(c1.com.v[1], m1.v), RMul(c2.com.v[1], m2.v)),
                 RAdd(m1.v, m2.v))
        y == Div(RAdd(RMul(c1.com.v[2], m1.v), RMul(c2.com.v[2], m2.v)),
                 RAdd(m1.v, m2.v))
    IN IF ~IsOk(c1.com) THEN c1.com
       ELSE IF ~IsOk(m1) THEN m1
       ELSE IF ~IsOk(c2.com) THEN c2.com
       ELSE IF ~IsOk(m2) THEN m2
       ELSE IF ~IsOk(x) THEN x
       ELSE IF ~IsOk(y) THEN y
       ELSE Ok(<<x.v, y.v>>)

(* _UnitSquare *)

UnitArea == Ok(R(1))

UnitBb == Ok(<<<<Frac(-1, 2), Frac(-1, 2)>>, <<Frac(1, 2), Frac(1, 2)>>>>)

UnitMom == Ok(Frac(1, 12))

UnitCom == Ok(<<Zero, Zero>>)

(* Rectangle, AngleSection, IBeam: _composite, built anew on every access *)

RectangleComposite(t) == Ok(scale(UnitSquare, PyTuple(t.x_side, t.y_side)))

AngleSectionComposite(t) ==
    LET side == t.side
        wall == t.wall
        half == RDivNZ(wall, R(2))
        r == sub(Rectangle(side, side),
                 shift(Rectangle(RSub(side, wall), RSub(side, wall)),
                       <<half, half>>))
    IN center(r)

\* the web as tall as the height less one flange
IBeamCompositeBug(t) ==
    LET up == RDivNZ(RSub(t.height, t.flange), R(2))
        mid == Rectangle(t.web, RSub(t.height, t.flange))
        top == shift(Rectangle(t.width, t.flange), <<Zero, up>>)
        bottom == shift(Rectangle(t.width, t.flange), <<Zero, RNeg(up)>>)
    IN Ok(add(add(top, mid), bottom))

IBeamComposite(t) ==
    LET up == RDivNZ(RSub(t.height, t.flange), R(2))
        mid == Rectangle(t.web, RSub(t.height, RMul(R(2), t.flange)))
        top == shift(Rectangle(t.width, t.flange), <<Zero, up>>)
        bottom == shift(Rectangle(t.width, t.flange), <<Zero, RNeg(up)>>)
    IN Ok(add(add(top, mid), bottom))

composite(t) ==
    CASE t.kind = "Rectangle" -> RectangleComposite(t)
      [] t.kind = "AngleSection" -> AngleSectionComposite(t)
      [] t.kind = "IBeam" -> IBeamComposite(t)

(* _CompositeSection: e is the outcome of self._composite, c its properties *)

CompositeArea(e, c) == IF ~IsOk(e) THEN e ELSE c.area

CompositeBb(e, c) == IF ~IsOk(e) THEN e ELSE c.bb

CompositeMom(e, c) == IF ~IsOk(e) THEN e ELSE c.mom

CompositeCom(e, c) == IF ~IsOk(e) THEN e ELSE c.com

props(t) ==
    CASE t.kind = "UnitSquare" ->
            [area |-> UnitArea, bb |-> UnitBb, mom |-> UnitMom, com |-> UnitCom]
      [] t.kind = "Shifted" ->
            LET c == props(t.crossection) IN
            [area |-> ShiftedArea(t, c), bb |-> ShiftedBb(t, c),
             mom |-> ShiftedMom(t, c), com |-> ShiftedCom(t, c)]
      [] t.kind = "Scaled" ->
            LET c == props(t.crossection) IN
            [area |-> ScaledArea(t, c), bb |-> ScaledBb(t, c),
             mom |-> ScaledMom(t, c), com |-> ScaledCom(t, c)]
      [] t.kind = "Weighted" ->
            LET c == props(t.crossection) IN
            [area |-> WeightedArea(t, c), bb |-> WeightedBb(t, c),
             mom |-> WeightedMom(t, c), com |-> WeightedCom(t, c)]
      [] t.kind = "Sum" ->
            LET c1 == props(t.first)
                c2 == props(t.second)
            IN [area |-> SumArea(t, c1, c2), bb |-> SumBb(t, c1, c2),
                mom |-> SumMom(t, c1, c2), com |-> SumCom(t, c1, c2)]
      [] OTHER ->
            LET e == composite(t)
                c == props(e.v)
            IN [area |-> CompositeArea(e, c), bb |-> CompositeBb(e, c),
                mom |-> CompositeMom(e, c), com |-> CompositeCom(e, c)]

Queries == {"area", "bb", "mom", "com"}

\* what a property access ends in: a value or one of these exceptions
Errors == {"none", "ZeroDivisionError", "TypeError"}

(* ------------------------------ the program --------------------------- *)

MaxNodes == 3

\* arguments the callers pass
Offsets == {<<R(0), R(1)>>, <<R(1), R(-2)>>}

ScaleArgs == <<PyTuple(Frac(1, 2), R(2)), PyFloat(Frac(3, 2)), PyInt(2)>>

Weights == <<PyInt(2), PyStr>>

RectangleArgs == {<<R(2), R(1)>>, <<R(-1), R(0)>>}

AngleSectionArgs == {<<R(2), R(1)>>, <<R(2), R(0)>>, <<R(2), R(3)>>}

IBeamArgs == {<<R(2), R(4), R(1), R(1)>>, <<R(1), R(4), R(1), R(2)>>}

\* a reference to the heap object i, held as a child or operand
Ref(i) == [kind |-> "Ref", id |-> i]

\* the tree an expression over heap objects denotes
RECURSIVE Tree(_, _)
Tree(h, n) ==
    CASE n.kind = "Ref" -> Tree(h, h[n.id])
      [] n.kind \in {"Shifted", "Scaled", "Weighted"} ->
            [n EXCEPT !.crossection = Tree(h, @)]
      [] n.kind = "Sum" ->
            [n EXCEPT !.first = Tree(h, @), !.second = Tree(h, @)]
      [] OTHER -> n

Nodes == DOMAIN heap

\* the tree of heap object i
Obj(i) == Tree(heap, Ref(i))

Init == heap = <<>>

Room == Len(heap) < MaxNodes

NewUnitSquare ==
    /\ Room
    /\ heap' = Append(heap, UnitSquare)

NewRectangle ==
    \E a \in RectangleArgs :
        /\ Room
        /\ heap' = Append(heap, Rectangle(a[1], a[2]))

NewAngleSection ==
    \E a \in AngleSectionArgs :
        /\ Room
        /\ heap' = Append(heap, AngleSection(a[1], a[2]))

NewIBeam ==
    \E a \in IBeamArgs :
        /\ Room
        /\ heap' = Append(heap, IBeam(a[1], a[2], a[3], a[4]))

\* a shift that overwrites the offset of an already shifted object
ShiftInPlace ==
    \E i \in Nodes, offset \in Offsets :
        IF heap[i].kind = "Shifted"
        THEN heap' = [heap EXCEPT ![i].offset = PyTuple(offset[1], offset[2])]
        ELSE Room /\ heap' = Append(heap, shift(Ref(i), offset))

Shift ==
    \E i \in Nodes, offset \in Offsets :
        /\ Room
        /\ heap' = Append(heap, shift(Ref(i), offset))

Scale ==
    \E i \in Nodes, k \in DOMAIN ScaleArgs :
        /\ Room
        /\ heap' = Append(heap, scale(Ref(i), ScaleArgs[k]))

Mul ==
    \E i \in Nodes, k \in DOMAIN Weights :
        LET w == mul(Ref(i), Weights[k]) IN
        IF IsOk(w)
        THEN Room /\ heap' = Append(heap, w.v)
        ELSE w.err = "AssertionError" /\ UNCHANGED heap

Neg ==
    \E i \in Nodes :
        /\ Room
        /\ heap' = Append(heap, neg(Ref(i)))

Add ==
    \E i \in Nodes, j \in Nodes :
        /\ Room
        /\ heap' = Append(heap, add(Ref(i), Ref(j)))

Sub ==
    \E i \in Nodes, j \in Nodes :
        /\ Room
        /\ heap' = Append(heap, sub(Ref(i), Ref(j)))

\* the new node wraps self; its offset comes from self.com
Center ==
    \E i \in Nodes :
        LET c == center(Obj(i)) IN
        IF IsOk(c)
        THEN Room /\ heap' = Append(heap, [c.v EXCEPT !.crossection = Ref(i)])
        ELSE c.err = "ZeroDivisionError" /\ UNCHANGED heap

Query ==
    \E i \in Nodes :
        LET p == props(Obj(i)) IN
        \E q \in Queries :
            /\ p[q].err \in Errors
            /\ UNCHANGED heap

Next ==
    \/ NewUnitSquare
    \/ NewRectangle
    \/ NewAngleSection
    \/ NewIBeam
    \/ Shift
    \/ Scale
    \/ Mul
    \/ Neg
    \/ Add
    \/ Sub
    \/ Center
    \/ Query

Spec == Init /\ [][Next]_vars

(* ------------------------------- claims ------------------------------- *)

RLt(a, b) == ~RLe(b, a)

\* the four properties end alike
SameProps(p, u) == \A q \in Queries : p[q] = u[q]

\* the tree of the child of a wrapping heap object
ChildOf(i) == Tree(heap, heap[i].crossection)

\* C1: a shifted shape has the area of its child and the child's moment plus
\* area * dy * dy, whatever dx is.
C1_ShiftLaw ==
    \A i \in Nodes :
        heap[i].kind = "Shifted" =>
            LET s == props(Obj(i))
                a == props(ChildOf(i))
                dy == heap[i].offset.v[2]
            IN /\ s.area = a.area
               /\ (IsOk(a.area) /\ IsOk(a.mom)) =>
                      s.mom = Ok(RAdd(a.mom.v, RMul(RMul(a.area.v, dy), dy)))
               /\ s.mom = mom(shift(ChildOf(i), <<Zero, dy>>))

C1_Witness ==
    \E i \in Nodes :
        /\ heap[i].kind = "Shifted"
        /\ heap[i].offset.v[1] # Zero
        /\ heap[i].offset.v[2] # Zero
        /\ heap[heap[i].crossection.id].kind \in {"AngleSection", "IBeam", "Sum"}
        /\ IsOk(area(ChildOf(i)))
        /\ area(ChildOf(i)) # Ok(Zero)
        /\ IsOk(mom(Obj(i)))
        /\ mom(Obj(i)) # mom(ChildOf(i))

IsMin(m, a, b) == m \in {a, b} /\ RLe(m, a) /\ RLe(m, b)

IsMax(m, a, b) == m \in {a, b} /\ RLe(a, m) /\ RLe(b, m)

\* C2: a sum has the sum of its children's areas and moments and the union of
\* their bounding boxes; a difference A - B has area(A) - area(B) and
\* moment(A) - moment(B).
C2_SumLaw ==
    \A i \in Nodes :
        heap[i].kind = "Sum" =>
            LET t == Obj(i)
                s == props(t)
                a == props(t.first)
                b == props(t.second)
            IN /\ (IsOk(a.area) /\ IsOk(b.area)) =>
                      s.area = Ok(RAdd(a.area.v, b.area.v))
               /\ (IsOk(a.mom) /\ IsOk(b.mom)) =>
                      s.mom = Ok(RAdd(a.mom.v, b.mom.v))
               /\ (IsOk(a.bb) /\ IsOk(b.bb)) =>
                      /\ IsOk(s.bb)
                      /\ IsMin(s.bb.v[1][1], a.bb.v[1][1], b.bb.v[1][1])
                      /\ IsMin(s.bb.v[1][2], a.bb.v[1][2], b.bb.v[1][2])
                      /\ IsMax(s.bb.v[2][1], a.bb.v[2][1], b.bb.v[2][1])
                      /\ IsMax(s.bb.v[2][2], a.bb.v[2][2], b.bb.v[2][2])
               /\ (t.second.kind = "Weighted" /\ t.second.weight = R(-1)) =>
                      LET b0 == props(t.second.crossection)
                      IN /\ (IsOk(a.area) /\ IsOk(b0.area)) =>
                                s.area = Ok(RSub(a.area.v, b0.area.v))
                         /\ (IsOk(a.mom) /\ IsOk(b0.mom)) =>
                                s.mom = Ok(RSub(a.mom.v, b0.mom.v))

C2_Witness ==
    \E i \in Nodes :
        /\ heap[i].kind = "Sum"
        /\ heap[i].second.kind = "Weighted"
        /\ heap[i].first.id # heap[i].second.crossection.id
        /\ LET t == Obj(i)
               s == props(t)
               a == props(t.first)
               b == props(t.second)
           IN /\ IsOk(s.area) /\ IsOk(s.mom) /\ IsOk(s.bb)
              /\ s.area # a.area
              /\ s.mom # a.mom
              /\ s.bb # a.bb
              /\ s.bb # b.bb

\* C3: the centroid of center(A) is (0, 0) whenever A's centroid is defined
\* (whatever A's area);
\* an AngleSection with 0 < wall < side has centroid (0, 0).
C3_CenterLaw ==
    /\ \A i \in Nodes :
           IsOk(com(Obj(i))) =>
               /\ IsOk(center(Obj(i)))
               /\ com(center(Obj(i)).v) = Ok(<<Zero, Zero>>)
    /\ \A i \in Nodes :
           (/\ heap[i].kind = "AngleSection"
            /\ RLt(Zero, heap[i].wall)
            /\ RLt(heap[i].wall, heap[i].side)) =>
               com(Obj(i)) = Ok(<<Zero, Zero>>)

\* a node made by center() from a shape whose centroid is off the origin,
\* beside an AngleSection with 0 < wall < side
C3_Witness ==
    /\ \E i \in Nodes :
           /\ heap[i].kind = "Shifted"
           /\ IsOk(com(ChildOf(i)))
           /\ com(ChildOf(i)).v[1] # Zero
           /\ com(ChildOf(i)).v[2] # Zero
           /\ heap[i].offset.v = <<RNeg(com(ChildOf(i)).v[1]), RNeg(com(ChildOf(i)).v[2])>>
           /\ IsOk(area(Obj(i)))
           /\ area(Obj(i)) # Ok(Zero)
           /\ com(Obj(i)) = Ok(<<Zero, Zero>>)
    /\ \E i \in Nodes :
           /\ heap[i].kind = "AngleSection"
           /\ RLt(Zero, heap[i].wall)
           /\ RLt(heap[i].wall, heap[i].side)

\* heap object i is A - A for the heap object A
IsSelfDifference(i) ==
    /\ heap[i].kind = "Sum"
    /\ heap[i].first.kind = "Ref"
    /\ heap[i].second.kind = "Weighted"
    /\ heap[i].second.weight = R(-1)
    /\ heap[i].second.crossection.kind = "Ref"
    /\ heap[i].second.crossection.id = heap[i].first.id

\* C4: for every A with a defined centroid, A - A has area exactly 0 and its
\* centroid query raises ZeroDivisionError; the centroid of any sum whose
\* children's areas add to 0 raises ZeroDivisionError.
C4_SelfDifferenceFaults ==
    /\ \A i \in Nodes :
           (IsSelfDifference(i) /\ IsOk(com(Tree(heap, heap[i].first)))) =>
               /\ area(Obj(i)) = Ok(Zero)
               /\ com(Obj(i)) = Raise("ZeroDivisionError")
    /\ \A i \in Nodes :
           heap[i].kind = "Sum" =>
               LET a == area(Obj(i).first)
                   b == area(Obj(i).second)
               IN (IsOk(a) /\ IsOk(b) /\ RAdd(a.v, b.v) = Zero) =>
                      com(Obj(i)) = Raise("ZeroDivisionError")

\* C5: scale(A, s) with a scalar s has the properties of scale(A, (s, s)).
C5_ScalarScaleIsUniform ==
    \A i \in Nodes :
        (heap[i].kind = "Scaled" /\ heap[i].scale.type # "tuple") =>
            SameProps(props(Obj(i)),
                      props(scale(ChildOf(i),
                                  PyTuple(heap[i].scale.v[1], heap[i].scale.v[1]))))

\* C6: area, bounding box and moment of every shape return a value.
C6_QueriesTotal ==
    \A i \in Nodes :
        LET p == props(Obj(i)) IN IsOk(p.area) /\ IsOk(p.bb) /\ IsOk(p.mom)

\* C7: every step leaves the fields and the four properties of every existing
\* object as they were and adds at most one new object.
C7_PurelyFunctional ==
    [][/\ \A i \in DOMAIN heap :
              /\ i \in DOMAIN heap'
              /\ heap'[i] = heap[i]
              /\ SameProps(props(Tree(heap', Ref(i))), props(Tree(heap, Ref(i))))
       /\ heap' # heap => Len(heap') = Len(heap) + 1]_vars

\* two combinators were applied to the first object, whose centroid is defined
C7_Witness ==
    /\ Len(heap) = 3
    /\ heap[2].kind \in {"Shifted", "Scaled", "Weighted"}
    /\ heap[2].crossection = Ref(1)
    /\ heap[3].kind = "Sum"
    /\ heap[3].first = Ref(1)
    /\ IsOk(com(Obj(1)))
    /\ com(Obj(3)) # com(Obj(1))

IBeamExpected(width, height, flange, web) ==
    LET inner == RSub(height, RMul(R(2), flange))
        up == RDivNZ(RSub(height, flange), R(2))
        half == RDivNZ(RMax(width, web), R(2))
        halfHeight == RDivNZ(height, R(2))
        flangeMom == RAdd(RDivNZ(RMul(width, RCube(flange)), R(12)),
                          RMul(RMul(width, flange), RMul(up, up)))
    IN [area |-> Ok(RAdd(RMul(R(2), RMul(width, flange)), RMul(web, inner))),
        bb |-> Ok(<<<<RNeg(half), RNeg(halfHeight)>>, <<half, halfHeight>>>>),
        mom |-> Ok(RAdd(RDivNZ(RMul(web, RCube(inner)), R(12)),
                        RMul(R(2), flangeMom))),
        com |-> Ok(<<Zero, Zero>>)]

\* C8: an IBeam with positive dimensions and height > 2 * flange has the
\* closed-form area, moment, bounding box and centroid (0, 0);
\* IBeam(100, 100, 3, 3) has area 882, moment 1619446 and box +-50.
C8_IBeamClosedForm ==
    /\ \A i \in Nodes :
           (/\ heap[i].kind = "IBeam"
            /\ RLt(Zero, heap[i].width) /\ RLt(Zero, heap[i].height)
            /\ RLt(Zero, heap[i].flange) /\ RLt(Zero, heap[i].web)
            /\ RLt(RMul(R(2), heap[i].flange), heap[i].height)) =>
               SameProps(props(Obj(i)),
                         IBeamExpected(heap[i].width, heap[i].height,
                                       heap[i].flange, heap[i].web))
    /\ LET p == props(IBeam(R(100), R(100), R(3), R(3)))
       IN /\ p.area = Ok(R(882))
          /\ p.mom = Ok(R(1619446))
          /\ p.bb = Ok(<<<<R(-50), R(-50)>>, <<R(50), R(50)>>>>)
          /\ p.com = Ok(<<Zero, Zero>>)

C8_Witness ==
    \E i \in Nodes :
        /\ heap[i].kind = "IBeam"
        /\ RLt(heap[i].width, heap[i].web)
        /\ RLt(RMul(R(2), heap[i].flange), heap[i].height)
        /\ IsOk(mom(Obj(i)))

\* C9: shifting by (0, a) and then by (0, b) gives the properties of
\* shifting by (0, a + b).
C9_ShiftsCompose ==
    \A i \in Nodes :
        (/\ heap[i].kind = "Shifted"
         /\ heap[i].crossection.kind = "Ref"
         /\ heap[heap[i].crossection.id].kind = "Shifted"
         /\ heap[i].offset.v[1] = Zero
         /\ heap[heap[i].crossection.id].offset.v[1] = Zero) =>
            LET j == heap[i].crossection.id
                a == heap[j].offset.v[2]
                b == heap[i].offset.v[2]
            IN SameProps(props(Obj(i)),
                         props(shift(ChildOf(j), <<Zero, RAdd(a, b)>>)))

\* built from the leaf by shift, scale with positive factors, positive
\* weights and add
RECURSIVE PositiveBuilt(_)
PositiveBuilt(t) ==
    CASE t.kind = "UnitSquare" -> TRUE
      [] t.kind = "Shifted" -> PositiveBuilt(t.crossection)
      [] t.kind = "Scaled" ->
            /\ t.scale.type = "tuple"
            /\ RLt(Zero, t.scale.v[1])
            /\ RLt(Zero, t.scale.v[2])
            /\ PositiveBuilt(t.crossection)
      [] t.kind = "Weighted" ->
            RLt(Zero, t.weight) /\ PositiveBuilt(t.crossection)
      [] t.kind = "Sum" -> PositiveBuilt(t.first) /\ PositiveBuilt(t.second)
      [] OTHER -> FALSE

\* C10: such a shape has a well-formed bounding box that contains its
\* centroid.
C10_CentroidInsideBox ==
    \A i \in Nodes :
        LET p == props(Obj(i)) IN
        (PositiveBuilt(Obj(i)) /\ IsOk(p.com) /\ IsOk(p.bb)) =>
            /\ RLe(p.bb.v[1][1], p.bb.v[2][1])
            /\ RLe(p.bb.v[1][2], p.bb.v[2][2])
            /\ RLe(p.bb.v[1][1], p.com.v[1]) /\ RLe(p.com.v[1], p.bb.v[2][1])
            /\ RLe(p.bb.v[1][2], p.com.v[2]) /\ RLe(p.com.v[2], p.bb.v[2][2])

====
